---- MODULE Spec2Model ----
(***************************************************************************)
(* Model of the Shopify -> Printful relay (src/index.js): the catalog      *)
(* maps and their persistence, the rebuild from the provider's paginated   *)
(* catalog, the resolution of an order's line items, the idempotent PUT    *)
(* of the order and the in-memory duplicate guard of the webhook route.    *)
(***************************************************************************)
EXTENDS Integers, Sequences, FiniteSets

VARIABLES
  PRINTFUL_TOKEN,    \* TRUE iff process.env.PRINTFUL_TOKEN is a non-empty string
  IMGBB_API_KEY,     \* TRUE iff process.env.IMGBB_API_KEY is a non-empty string
  skuMap,            \* SKU -> sync_variant_id (a JavaScript object)
  externalMap,       \* external id (string) -> sync_variant_id
  file,              \* skuMap.json on disk
  processedOrders,   \* the Set of order ids already sent
  delivery,          \* the invocations of the webhook handler
  build,             \* the invocations of buildSkuMaps
  catalog,           \* the provider's sync catalog (upstream)
  printful,          \* the provider's orders, in creation order
  call               \* a direct call of createOrUpdatePrintfulOrder and its outcome

vars == <<PRINTFUL_TOKEN, IMGBB_API_KEY, skuMap, externalMap, file,
          processedOrders, delivery, build, catalog, printful, call>>

----------------------------------------------------------------------------
(* Bounds of the model.                                                    *)

MaxDeliveries == 2     \* webhook deliveries in one process lifetime
MaxBuilds == 2         \* invocations of buildSkuMaps (startup + admin triggers)
MaxItems == 2          \* line items of an order given to a direct call
MaxOverlap == 1        \* rebuilds interleaved with a delivery in Spec
MaxProducts == 3       \* products of the catalog a single rebuild pages through
MaxNum == 100          \* numeric strings "0".."MaxNum" are recognised as integer keys

----------------------------------------------------------------------------
(* JavaScript values.  Each kind of value is a record with its own field,  *)
(* so that values of different kinds are never equal.                      *)

Undef == [u |-> TRUE]                 \* undefined (also: an absent property)
Null == [z |-> TRUE]                  \* null
NaN == [nan |-> TRUE]                 \* Number.NaN
Num(n) == [n |-> n]                   \* a finite number
Str(s) == [s |-> s]                   \* a string
Fn(name) == [fn |-> name]             \* a function object

IsNum(v) == "n" \in DOMAIN v
IsStr(v) == "s" \in DOMAIN v

\* ToBoolean: what `x ? a : b`, `x || y` and `!x` test.
Truthy(v) ==
  IF IsNum(v) THEN v.n # 0
  ELSE IF IsStr(v) THEN v.s # ""
  ELSE "fn" \in DOMAIN v

\* a || b
Or(a, b) == IF Truthy(a) THEN a ELSE b

Digit == <<"0", "1", "2", "3", "4", "5", "6", "7", "8", "9">>

\* The decimal digits of an integer (Number.prototype.toString).
RECURSIVE IntToStr(_)
IntToStr(n) ==
  IF n < 0 THEN "-" \o IntToStr(-n)
  ELSE IF n < 10 THEN Digit[n + 1]
  ELSE IntToStr(n \div 10) \o Digit[(n % 10) + 1]

\* String(x) and x.toString() of a number or string.
String(v) ==
  IF IsNum(v) THEN IntToStr(v.n)
  ELSE IF IsStr(v) THEN v.s
  ELSE IF v = Undef THEN "undefined"
  ELSE IF v = Null THEN "null"
  ELSE IF v = NaN THEN "NaN"
  ELSE "function"

\* Number(x): numbers are kept; a string that is the decimal form of an
\* integer gives that integer; "" gives 0; null gives 0; all else NaN.
ToNumber(v) ==
  IF IsNum(v) THEN v
  ELSE IF v = Null THEN Num(0)
  ELSE IF IsStr(v) THEN
    IF v.s = "" THEN Num(0)
    ELSE IF \E n \in (-MaxNum)..MaxNum : IntToStr(n) = v.s
      THEN Num(CHOOSE n \in (-MaxNum)..MaxNum : IntToStr(n) = v.s)
      ELSE NaN
  ELSE NaN

----------------------------------------------------------------------------
(* JavaScript objects used as maps: the own properties in enumeration      *)
(* order, a sequence of <<key, value>>.  Keys that are canonical array     *)
(* indices ("0", "7", "99") come first in ascending numeric order, every   *)
(* other key follows in insertion order.                                   *)

EmptyObj == << >>

Keys(o) == {o[i][1] : i \in DOMAIN o}

HasOwn(o, k) == \E i \in DOMAIN o : o[i][1] = k

\* Properties every object literal inherits from Object.prototype.
ProtoKeys == {"constructor", "toString", "valueOf", "hasOwnProperty"}

\* o[k]: the own property, else the inherited one, else undefined.
Get(o, k) ==
  IF HasOwn(o, k) THEN o[CHOOSE i \in DOMAIN o : o[i][1] = k][2]
  ELSE IF k \in ProtoKeys THEN Fn(k)
  ELSE Undef

IsIndex(k) == \E n \in 0..MaxNum : IntToStr(n) = k
IndexOf(k) == CHOOSE n \in 0..MaxNum : IntToStr(n) = k

\* TRUE iff key a is enumerated before a new key k.
Before(a, k) ==
  IF IsIndex(k) THEN IsIndex(a) /\ IndexOf(a) < IndexOf(k)
  ELSE TRUE

\* o[k] = v
Put(o, k, v) ==
  IF HasOwn(o, k)
    THEN [i \in DOMAIN o |-> IF o[i][1] = k THEN <<k, v>> ELSE o[i]]
    ELSE LET n == Cardinality({i \in DOMAIN o : Before(o[i][1], k)})
         IN  SubSeq(o, 1, n) \o << <<k, v>> >> \o SubSeq(o, n + 1, Len(o))

\* JSON.stringify of a value inside an object: NaN is written as null.
JsonValue(v) == IF v = NaN THEN Null ELSE v

\* JSON.stringify(o): the text lists the own properties in enumeration
\* order; a property whose value is undefined or a function is left out.
RECURSIVE Stringify(_)
Stringify(o) ==
  IF o = << >> THEN << >>
  ELSE LET p == Head(o)
       IN  IF p[2] = Undef \/ "fn" \in DOMAIN p[2]
             THEN Stringify(Tail(o))
             ELSE << <<p[1], JsonValue(p[2])>> >> \o Stringify(Tail(o))

\* JSON.parse of an object text: the properties are created in text order.
RECURSIVE ParseFrom(_, _)
ParseFrom(text, o) ==
  IF text = << >> THEN o
  ELSE ParseFrom(Tail(text), Put(o, Head(text)[1], Head(text)[2]))

Parse(text) == ParseFrom(text, EmptyObj)

----------------------------------------------------------------------------
(* skuMap.json.  The file is missing, holds text that JSON.parse rejects,  *)
(* or holds a JSON document: the current shape {skuMap, externalMap} or    *)
(* the legacy shape, a flat SKU table.                                     *)

Missing == [kind |-> "missing"]
Corrupt == [kind |-> "corrupt"]
CurrentDoc(s, e) == [kind |-> "current", skuMap |-> s, externalMap |-> e]
LegacyDoc(s) == [kind |-> "legacy", flat |-> s]

\* JSON.stringify({ skuMap: s, externalMap: e }, null, 2)
DocJson(s, e) == CurrentDoc(Stringify(s), Stringify(e))

\* A load that knows the current shape only.
loadCurrentShapeOnly(f) ==
  IF f.kind = "current" THEN <<Parse(f.skuMap), Parse(f.externalMap)>>
  ELSE <<EmptyObj, EmptyObj>>

\* loadSkuMapFromFile: the pair <<skuMap, externalMap>> it assigns.  The
\* two objects of a current document are truthy; a flat table is taken as
\* a current document only if it has truthy entries under both names.
loadSkuMapFromFile(f) ==
  IF f.kind = "current" THEN <<Parse(f.skuMap), Parse(f.externalMap)>>
  ELSE IF f.kind = "legacy" THEN
    LET parsed == Parse(f.flat)
    IN  IF Truthy(Get(parsed, "skuMap")) /\ Truthy(Get(parsed, "externalMap"))
          THEN <<Get(parsed, "skuMap"), Get(parsed, "externalMap")>>
          ELSE <<parsed, EmptyObj>>
  ELSE <<EmptyObj, EmptyObj>>

\* A save that writes the SKU table alone, the shape of the old files.
saveSkuTableOnly(f, newSkuMap, newExternalMap, writeOk) ==
  LET newJson == LegacyDoc(Stringify(newSkuMap))
  IN  IF f.kind # "missing" /\ f = newJson THEN [file |-> f, wrote |-> FALSE]
      ELSE [file |-> IF writeOk THEN newJson ELSE f, wrote |-> TRUE]

\* saveSkuMapToFileIfChanged: the file it leaves and whether it reached
\* fs.writeFileSync, given whether that write succeeds (a failure is
\* caught and logged).
saveSkuMapToFileIfChanged(f, newSkuMap, newExternalMap, writeOk) ==
  LET newJson == DocJson(newSkuMap, newExternalMap)
  IN  IF f.kind # "missing" /\ f = newJson THEN [file |-> f, wrote |-> FALSE]
      ELSE [file |-> IF writeOk THEN newJson ELSE f, wrote |-> TRUE]

----------------------------------------------------------------------------
(* Orders.  An order is [id, email, line_items]; a line item is            *)
(* [sku, variant_id, quantity, qrText], where qrText is the value of the   *)
(* item's "QR Text" property (Undef when the item has none).               *)

LineItem(sku, variant_id, quantity, qrText) ==
  [sku |-> sku, variant_id |-> variant_id, quantity |-> quantity, qrText |-> qrText]

Order(id, email, line_items) ==
  [id |-> id, email |-> email, line_items |-> line_items]

\* const sku = (li.sku || "").toString()
SkuOf(li) == String(Or(li.sku, Str("")))

\* variantFromSku
VariantFromSku(li, sMap) ==
  IF SkuOf(li) # "" THEN Get(sMap, SkuOf(li)) ELSE Undef

\* variantFromExternal
VariantFromExternal(li, eMap) ==
  IF Truthy(li.variant_id) THEN Get(eMap, String(li.variant_id)) ELSE Undef

\* Mapped with the two lookups in the other order.
MappedExternalFirst(li, sMap, eMap) ==
  Or(VariantFromExternal(li, eMap), VariantFromSku(li, sMap))

\* const mapped = variantFromSku || variantFromExternal
Mapped(li, sMap, eMap) == Or(VariantFromSku(li, sMap), VariantFromExternal(li, eMap))

\* The object pushed for a line item that is mapped.
Item(li, mapped, imageUrl) ==
  [quantity |-> Or(li.quantity, Num(1)),
   sync_variant_id |-> ToNumber(mapped),
   files |-> << [url |-> imageUrl, type |-> "back"] >>]

\* The loop over order.line_items: the items array it leaves.
RECURSIVE Items(_, _, _, _)
Items(lis, imageUrl, sMap, eMap) ==
  IF lis = << >> THEN << >>
  ELSE LET li == Head(lis)
           mapped == Mapped(li, sMap, eMap)
           rest == Items(Tail(lis), imageUrl, sMap, eMap)
       IN  IF ~Truthy(mapped) THEN rest
           ELSE <<Item(li, mapped, imageUrl)>> \o rest

\* PutRequest as a create: POST /orders with the same body.
PostRequest(order, items) ==
  [method |-> "POST",
   key |-> String(order.id),
   body |-> [external_id |-> String(order.id),
             recipient |-> [email |-> Or(order.email, Str(""))],
             items |-> items]]

\* The request the PUT carries: its method, the key of its URL
\* (/orders/@<key>) and its body.
PutRequest(order, items) ==
  [method |-> "PUT",
   key |-> String(order.id),
   body |-> [external_id |-> String(order.id),
             recipient |-> [email |-> Or(order.email, Str(""))],
             items |-> items]]

\* createOrUpdatePrintfulOrder up to its first await: it throws, returns
\* { skipped: true, reason: "no_mapped_items" }, or issues the request.
createOrUpdatePrintfulOrder(order, imageUrl, token, sMap, eMap) ==
  IF ~token THEN [kind |-> "throw", error |-> "PRINTFUL_TOKEN not set in .env"]
  ELSE LET items == Items(order.line_items, imageUrl, sMap, eMap)
       IN  IF Len(items) = 0
             THEN [kind |-> "skipped", reason |-> "no_mapped_items"]
             ELSE [kind |-> "request", request |-> PutRequest(order, items)]

----------------------------------------------------------------------------
(* The provider's order store.  PUT /orders/@<key> replaces the order      *)
(* whose external id is <key>, or creates it; POST /orders creates one.    *)

Resource(req) == [external_id |-> req.key, payload |-> req.body]

ProviderApply(orders, req) ==
  IF req.method = "PUT" /\ \E i \in DOMAIN orders : orders[i].external_id = req.key
    THEN [i \in DOMAIN orders |->
            IF orders[i].external_id = req.key THEN Resource(req) ELSE orders[i]]
    ELSE Append(orders, Resource(req))

----------------------------------------------------------------------------
(* The webhook route POST /webhook/orders_create.  An invocation is at     *)
(* "idle" (not yet delivered), suspended at one of its awaits, or "done".  *)

Deliveries == 1..MaxDeliveries

IdleDelivery ==
  [pc |-> "idle", order |-> Undef, request |-> Undef, respOk |-> FALSE,
   status |-> 0, body |-> ""]

Respond(rec, status, body) == [rec EXCEPT !.pc = "done", !.status = status, !.body = body]

\* The first truthy value of a "QR Text" property, in line-item order.
RECURSIVE FindQrText(_)
FindQrText(lis) ==
  IF lis = << >> THEN Null
  ELSE IF Truthy(Head(lis).qrText) THEN Head(lis).qrText
  ELSE FindQrText(Tail(lis))

\* Receive without the duplicate guard.
ReceiveUnguarded(d, o) ==
  /\ delivery[d].pc = "idle"
  /\ \A e \in Deliveries : e < d => delivery[e].pc # "idle"
  /\ delivery' = [delivery EXCEPT ![d] =
       IF ~Truthy(FindQrText(o.line_items))
         THEN Respond([@ EXCEPT !.order = o], 200, "No QR Text")
       ELSE [@ EXCEPT !.pc = "qr", !.order = o]]
  /\ UNCHANGED <<PRINTFUL_TOKEN, IMGBB_API_KEY, skuMap, externalMap, file,
                 processedOrders, build, catalog, printful, call>>

\* Receive with the order marked in the stretch that checks the guard.
ReceiveMarksAtGuard(d, o) ==
  /\ delivery[d].pc = "idle"
  /\ \A e \in Deliveries : e < d => delivery[e].pc # "idle"
  /\ delivery' = [delivery EXCEPT ![d] =
       IF o.id \in processedOrders
         THEN Respond([@ EXCEPT !.order = o], 200, "Already processed")
       ELSE IF ~Truthy(FindQrText(o.line_items))
         THEN Respond([@ EXCEPT !.order = o], 200, "No QR Text")
       ELSE [@ EXCEPT !.pc = "qr", !.order = o]]
  /\ processedOrders' = IF Truthy(FindQrText(o.line_items))
                          THEN processedOrders \cup {o.id} ELSE processedOrders
  /\ UNCHANGED <<PRINTFUL_TOKEN, IMGBB_API_KEY, skuMap, externalMap, file,
                 build, catalog, printful, call>>

\* The handler from its entry to `await QRCode.toDataURL(qrText)`.
Receive(d, o) ==
  /\ delivery[d].pc = "idle"
  /\ \A e \in Deliveries : e < d => delivery[e].pc # "idle"
  /\ delivery' = [delivery EXCEPT ![d] =
       IF o.id \in processedOrders
         THEN Respond([@ EXCEPT !.order = o], 200, "Already processed")
       ELSE IF ~Truthy(FindQrText(o.line_items))
         THEN Respond([@ EXCEPT !.order = o], 200, "No QR Text")
       ELSE [@ EXCEPT !.pc = "qr", !.order = o]]
  /\ UNCHANGED <<PRINTFUL_TOKEN, IMGBB_API_KEY, skuMap, externalMap, file,
                 processedOrders, build, catalog, printful, call>>

\* QRCode.toDataURL settles; then uploadToImgBB up to its fetch.
QrDone(d, ok) ==
  /\ delivery[d].pc = "qr"
  /\ delivery' = [delivery EXCEPT ![d] =
       IF ~ok THEN Respond(@, 500, "Server error")
       ELSE IF ~IMGBB_API_KEY THEN Respond(@, 500, "ImgBB upload failed")
       ELSE [@ EXCEPT !.pc = "upload"]]
  /\ UNCHANGED <<PRINTFUL_TOKEN, IMGBB_API_KEY, skuMap, externalMap, file,
                 processedOrders, build, catalog, printful, call>>

\* UploadDone with the order marked as soon as the ImgBB response arrives.
UploadDoneMarksEarly(d, ok, imageUrl) ==
  /\ delivery[d].pc = "upload"
  /\ LET r == createOrUpdatePrintfulOrder(delivery[d].order, imageUrl,
                                          PRINTFUL_TOKEN, skuMap, externalMap)
     IN  delivery' = [delivery EXCEPT ![d] =
           IF ~ok THEN Respond(@, 500, "ImgBB upload failed")
           ELSE IF r.kind = "throw" THEN Respond(@, 500, "Printful order failed")
           ELSE IF r.kind = "skipped"
             THEN Respond(@, 200, "No mapped items; skipped Printful creation")
           ELSE [@ EXCEPT !.pc = "put", !.request = r.request]]
  /\ processedOrders' = processedOrders \cup {delivery[d].order.id}
  /\ UNCHANGED <<PRINTFUL_TOKEN, IMGBB_API_KEY, skuMap, externalMap, file,
                 build, catalog, printful, call>>

\* The ImgBB response arrives; on success createOrUpdatePrintfulOrder runs
\* up to its fetch.
UploadDone(d, ok, imageUrl) ==
  /\ delivery[d].pc = "upload"
  /\ LET r == createOrUpdatePrintfulOrder(delivery[d].order, imageUrl,
                                          PRINTFUL_TOKEN, skuMap, externalMap)
     IN  delivery' = [delivery EXCEPT ![d] =
           IF ~ok THEN Respond(@, 500, "ImgBB upload failed")
           ELSE IF r.kind = "throw" THEN Respond(@, 500, "Printful order failed")
           ELSE IF r.kind = "skipped"
             THEN Respond(@, 200, "No mapped items; skipped Printful creation")
           ELSE [@ EXCEPT !.pc = "put", !.request = r.request]]
  /\ UNCHANGED <<PRINTFUL_TOKEN, IMGBB_API_KEY, skuMap, externalMap, file,
                 processedOrders, build, catalog, printful, call>>

\* The provider serves the request: it applies it and answers 2xx, or
\* rejects it.
ProviderServe(d, accept) ==
  /\ delivery[d].pc = "put"
  /\ printful' = IF accept THEN ProviderApply(printful, delivery[d].request)
                 ELSE printful
  /\ delivery' = [delivery EXCEPT ![d] = [@ EXCEPT !.pc = "resp", !.respOk = accept]]
  /\ UNCHANGED <<PRINTFUL_TOKEN, IMGBB_API_KEY, skuMap, externalMap, file,
                 processedOrders, build, catalog, call>>

\* PutDone with the order marked before the response is looked at.
PutDoneMarksFirst(d) ==
  /\ delivery[d].pc = "resp"
  /\ processedOrders' = processedOrders \cup {delivery[d].order.id}
  /\ delivery' = [delivery EXCEPT ![d] =
       IF delivery[d].respOk THEN Respond(@, 200, "Processed and sent to Printful")
       ELSE Respond(@, 500, "Printful order failed")]
  /\ UNCHANGED <<PRINTFUL_TOKEN, IMGBB_API_KEY, skuMap, externalMap, file,
                 build, catalog, printful, call>>

\* The provider's response arrives: the rest of createOrUpdatePrintfulOrder
\* and of the handler.
PutDone(d) ==
  /\ delivery[d].pc = "resp"
  /\ IF delivery[d].respOk
       THEN /\ processedOrders' = processedOrders \cup {delivery[d].order.id}
            /\ delivery' = [delivery EXCEPT ![d] =
                 Respond(@, 200, "Processed and sent to Printful")]
       ELSE /\ processedOrders' = processedOrders
            /\ delivery' = [delivery EXCEPT ![d] =
                 Respond(@, 500, "Printful order failed")]
  /\ UNCHANGED <<PRINTFUL_TOKEN, IMGBB_API_KEY, skuMap, externalMap, file,
                 build, catalog, printful, call>>

----------------------------------------------------------------------------
(* A direct call createOrUpdatePrintfulOrder(order, imageUrl), up to its   *)
(* first await, with its outcome.                                          *)

NoCall == [kind |-> "none"]

DirectCall(o, imageUrl) ==
  /\ call = NoCall
  /\ call' = [kind |-> "called", order |-> o, imageUrl |-> imageUrl,
              result |-> createOrUpdatePrintfulOrder(o, imageUrl, PRINTFUL_TOKEN,
                                                     skuMap, externalMap)]
  /\ UNCHANGED <<PRINTFUL_TOKEN, IMGBB_API_KEY, skuMap, externalMap, file,
                 processedOrders, delivery, build, catalog, printful>>

----------------------------------------------------------------------------
(* The provider's sync catalog: a sequence of products, each with the      *)
(* sync_variants its detail endpoint returns.                              *)

Variant(id, sync_variant_id, sku, external_id) ==
  [id |-> id, sync_variant_id |-> sync_variant_id, sku |-> sku,
   external_id |-> external_id]

Product(id, sync_variants) == [id |-> id, sync_variants |-> sync_variants]

\* The page size of GET /sync/products.  The source asks for 100 products
\* a page; the model keeps the paging and scales the page down.
limit == 2

\* data.result of GET /sync/products?offset=<offset>&limit=<limit>
Page(cat, offset) ==
  [i \in 1..(IF Len(cat) - offset > limit THEN limit
             ELSE IF Len(cat) - offset > 0 THEN Len(cat) - offset ELSE 0)
     |-> cat[offset + i].id]

HasProduct(cat, id) == \E i \in DOMAIN cat : cat[i].id = id

\* prData.result.sync_variants of GET /sync/products/<id>
Detail(cat, id) == cat[CHOOSE i \in DOMAIN cat : cat[i].id = id].sync_variants

\* a ?? b
Nullish(a, b) == IF a = Undef \/ a = Null THEN b ELSE a

\* const syncId = syncIdRaw != null ? Number(syncIdRaw) : null
SyncId(v) ==
  LET syncIdRaw == Nullish(v.id, Nullish(v.sync_variant_id, Null))
  IN  IF syncIdRaw # Null THEN ToNumber(syncIdRaw) ELSE Null

\* The body of `for (const v of variants)` for one variant: the pair of
\* maps it leaves.
AddVariant(maps, v) ==
  LET syncId == SyncId(v)
  IN  IF ~Truthy(syncId) \/ syncId = NaN THEN maps
      ELSE << IF Truthy(v.sku) THEN Put(maps[1], String(v.sku), syncId) ELSE maps[1],
              IF v.external_id # Undef /\ v.external_id # Null
                THEN Put(maps[2], String(v.external_id), syncId) ELSE maps[2] >>

RECURSIVE AddVariants(_, _)
AddVariants(maps, variants) ==
  IF variants = << >> THEN maps
  ELSE AddVariants(AddVariant(maps, Head(variants)), Tail(variants))

----------------------------------------------------------------------------
(* buildSkuMaps.  An invocation is "idle" (not started), suspended at the  *)
(* fetch of a listing page ("list") or of a product detail ("detail"), or  *)
(* "done" with its outcome.  skipped lists the products it has logged as   *)
(* "Skipping product detail (failed)".                                     *)

Builds == 1..MaxBuilds

IdleBuild ==
  [pc |-> "idle", offset |-> 0, products |-> << >>, idx |-> 0,
   newSkuMap |-> EmptyObj, newExternalMap |-> EmptyObj,
   skipped |-> << >>, outcome |-> "", wrote |-> FALSE]

\* The caller of invocation b: the app.listen callback starts the first
\* one, the admin route every later one.
Caller(b) == IF b = 1 THEN "startup" ELSE "admin"

\* What the caller makes of the invocation's end: the admin route answers
\* 200 or 500; the app.listen callback logs "ready" or the caught error.
Returned(b) == IF Caller(b) = "admin" THEN "200" ELSE "ready"
Thrown(b) == IF Caller(b) = "admin" THEN "500" ELSE "caught"

Succeeded(rec) == rec.pc = "done" /\ rec.outcome \in {"200", "ready"}
Failed(rec) == rec.pc = "done" /\ rec.outcome \in {"500", "caught"}

\* Swap with externalMap left as it was.
SwapSkuOnly(b, rec, writeOk) ==
  IF Stringify(skuMap) # Stringify(rec.newSkuMap)
       \/ Stringify(externalMap) # Stringify(rec.newExternalMap)
    THEN LET saved == saveSkuMapToFileIfChanged(file, rec.newSkuMap,
                                                rec.newExternalMap, writeOk)
         IN  /\ skuMap' = rec.newSkuMap
             /\ externalMap' = externalMap
             /\ file' = saved.file
             /\ build' = [build EXCEPT ![b] =
                  [rec EXCEPT !.pc = "done", !.outcome = Returned(b), !.wrote = saved.wrote]]
    ELSE /\ UNCHANGED <<skuMap, externalMap, file>>
         /\ build' = [build EXCEPT ![b] = [rec EXCEPT !.pc = "done", !.outcome = Returned(b)]]

\* Swap without the comparison of the maps in memory.
SwapAlways(b, rec, writeOk) ==
  LET saved == saveSkuMapToFileIfChanged(file, rec.newSkuMap,
                                         rec.newExternalMap, writeOk)
  IN  /\ skuMap' = rec.newSkuMap
      /\ externalMap' = rec.newExternalMap
      /\ file' = saved.file
      /\ build' = [build EXCEPT ![b] =
           [rec EXCEPT !.pc = "done", !.outcome = Returned(b), !.wrote = saved.wrote]]

\* Swap that gives way to a rebuild that started later and has completed.
SwapUnlessOvertaken(b, rec, writeOk) ==
  IF \E c \in Builds : c > b /\ Succeeded(build[c])
    THEN /\ UNCHANGED <<skuMap, externalMap, file>>
         /\ build' = [build EXCEPT ![b] = [rec EXCEPT !.pc = "done", !.outcome = Returned(b)]]
    ELSE SwapAlways(b, rec, writeOk)

\* The end of buildSkuMaps, from "swap into memory and persist only if
\* changed": the maps, the file and the invocation it leaves.
Swap(b, rec, writeOk) ==
  IF Stringify(skuMap) # Stringify(rec.newSkuMap)
       \/ Stringify(externalMap) # Stringify(rec.newExternalMap)
    THEN LET saved == saveSkuMapToFileIfChanged(file, rec.newSkuMap,
                                                rec.newExternalMap, writeOk)
         IN  /\ skuMap' = rec.newSkuMap
             /\ externalMap' = rec.newExternalMap
             /\ file' = saved.file
             /\ build' = [build EXCEPT ![b] =
                  [rec EXCEPT !.pc = "done", !.outcome = Returned(b), !.wrote = saved.wrote]]
    ELSE /\ UNCHANGED <<skuMap, externalMap, file>>
         /\ build' = [build EXCEPT ![b] = [rec EXCEPT !.pc = "done", !.outcome = Returned(b)]]

\* EndOfPage that stops on an empty page only.
EndOfPageOnEmpty(b, rec, writeOk) ==
  IF Len(rec.products) = 0
    THEN Swap(b, rec, writeOk)
    ELSE /\ build' = [build EXCEPT ![b] =
              [rec EXCEPT !.pc = "list", !.offset = @ + limit]]
         /\ UNCHANGED <<skuMap, externalMap, file>>

\* After the products of a page have been handled: stop on a short page,
\* else ask for the next page.
EndOfPage(b, rec, writeOk) ==
  IF Len(rec.products) < limit
    THEN Swap(b, rec, writeOk)
    ELSE /\ build' = [build EXCEPT ![b] =
              [rec EXCEPT !.pc = "list", !.offset = @ + limit]]
         /\ UNCHANGED <<skuMap, externalMap, file>>

\* buildSkuMaps is called and runs up to the fetch of the first page.
BuildStart(b) ==
  /\ build[b].pc = "idle"
  /\ \A c \in Builds : c < b => build[c].pc # "idle"
  /\ build' = [build EXCEPT ![b] =
       IF ~PRINTFUL_TOKEN THEN [@ EXCEPT !.pc = "done", !.outcome = Thrown(b)]
       ELSE [@ EXCEPT !.pc = "list"]]
  /\ UNCHANGED <<PRINTFUL_TOKEN, IMGBB_API_KEY, skuMap, externalMap, file,
                 processedOrders, delivery, catalog, printful, call>>

\* A listing page arrives.
ListDone(b, ok, writeOk) ==
  /\ build[b].pc = "list"
  /\ IF ~ok
       THEN /\ build' = [build EXCEPT ![b] = [@ EXCEPT !.pc = "done", !.outcome = Thrown(b)]]
            /\ UNCHANGED <<skuMap, externalMap, file>>
       ELSE LET products == Page(catalog, build[b].offset)
                rec == [build[b] EXCEPT !.products = products]
            IN  IF Len(products) > 0
                  THEN /\ build' = [build EXCEPT ![b] =
                            [rec EXCEPT !.pc = "detail", !.idx = 1]]
                       /\ UNCHANGED <<skuMap, externalMap, file>>
                  ELSE EndOfPage(b, rec, writeOk)
  /\ UNCHANGED <<PRINTFUL_TOKEN, IMGBB_API_KEY, processedOrders, delivery,
                 catalog, printful, call>>

\* DetailDone filling skuMap and externalMap themselves as it goes.
DetailDoneInPlace(b, ok, writeOk) ==
  /\ build[b].pc = "detail"
  /\ LET p == build[b].products[build[b].idx]
     IN  /\ ok => HasProduct(catalog, p)
         /\ LET maps == IF ok
                          THEN AddVariants(<<build[b].newSkuMap, build[b].newExternalMap>>,
                                           Detail(catalog, p))
                          ELSE <<build[b].newSkuMap, build[b].newExternalMap>>
                rec == [build[b] EXCEPT !.newSkuMap = maps[1], !.newExternalMap = maps[2],
                                        !.skipped = IF ok THEN @ ELSE Append(@, p)]
            IN  IF build[b].idx < Len(build[b].products)
                  THEN /\ build' = [build EXCEPT ![b] = [rec EXCEPT !.idx = @ + 1]]
                       /\ skuMap' = maps[1]
                       /\ externalMap' = maps[2]
                       /\ UNCHANGED file
                  ELSE EndOfPage(b, rec, writeOk)
  /\ UNCHANGED <<PRINTFUL_TOKEN, IMGBB_API_KEY, processedOrders, delivery,
                 catalog, printful, call>>

\* DetailDone that throws when the fetch failed, as the listing does.
DetailDoneStrict(b, ok, writeOk) ==
  /\ build[b].pc = "detail"
  /\ LET p == build[b].products[build[b].idx]
     IN  /\ ok => HasProduct(catalog, p)
         /\ IF ~ok
              THEN /\ build' = [build EXCEPT ![b] =
                        [@ EXCEPT !.pc = "done", !.outcome = Thrown(b)]]
                   /\ UNCHANGED <<skuMap, externalMap, file>>
              ELSE LET maps == AddVariants(<<build[b].newSkuMap, build[b].newExternalMap>>,
                                           Detail(catalog, p))
                       rec == [build[b] EXCEPT !.newSkuMap = maps[1],
                                               !.newExternalMap = maps[2]]
                   IN  IF build[b].idx < Len(build[b].products)
                         THEN /\ build' = [build EXCEPT ![b] = [rec EXCEPT !.idx = @ + 1]]
                              /\ UNCHANGED <<skuMap, externalMap, file>>
                         ELSE EndOfPage(b, rec, writeOk)
  /\ UNCHANGED <<PRINTFUL_TOKEN, IMGBB_API_KEY, processedOrders, delivery,
                 catalog, printful, call>>

\* The detail of the product at idx arrives; the product is skipped when
\* the fetch failed.
DetailDone(b, ok, writeOk) ==
  /\ build[b].pc = "detail"
  /\ LET p == build[b].products[build[b].idx]
     IN  /\ ok => HasProduct(catalog, p)
         /\ LET maps == IF ok
                          THEN AddVariants(<<build[b].newSkuMap, build[b].newExternalMap>>,
                                           Detail(catalog, p))
                          ELSE <<build[b].newSkuMap, build[b].newExternalMap>>
                rec == [build[b] EXCEPT !.newSkuMap = maps[1], !.newExternalMap = maps[2],
                                        !.skipped = IF ok THEN @ ELSE Append(@, p)]
            IN  IF build[b].idx < Len(build[b].products)
                  THEN /\ build' = [build EXCEPT ![b] = [rec EXCEPT !.idx = @ + 1]]
                       /\ UNCHANGED <<skuMap, externalMap, file>>
                  ELSE EndOfPage(b, rec, writeOk)
  /\ UNCHANGED <<PRINTFUL_TOKEN, IMGBB_API_KEY, processedOrders, delivery,
                 catalog, printful, call>>

\* The provider's catalog changes between two requests.
CatalogChange(c) ==
  /\ catalog # c
  /\ catalog' = c
  /\ UNCHANGED <<PRINTFUL_TOKEN, IMGBB_API_KEY, skuMap, externalMap, file,
                 processedOrders, delivery, build, printful, call>>

----------------------------------------------------------------------------
(* The inputs the model draws from.                                        *)

P1 == Product(Num(1), << Variant(Num(55), Undef, Str("A1"), Str("99")) >>)
P1b == Product(Num(1), << Variant(Num(56), Undef, Str("A1"), Str("99")) >>)
P2 == Product(Num(2), << Variant(Num(77), Undef, Str("B2"), Num(0)),
                         Variant(Undef, Str("88"), Str("C3"), Undef),
                         Variant(Null, Undef, Str("D4"), Num(7)) >>)

CatA == <<P1>>
CatC == <<P1b, P2>>
Catalogs == {CatA, CatC}

\* The maps a complete pass over a catalog builds.
RECURSIVE BuiltFrom(_, _)
BuiltFrom(cat, maps) ==
  IF cat = << >> THEN maps
  ELSE BuiltFrom(Tail(cat), AddVariants(maps, Head(cat).sync_variants))

Built(cat) == BuiltFrom(cat, <<EmptyObj, EmptyObj>>)

\* What skuMap.json can hold when the process starts.
Files ==
  {Missing, Corrupt,
   LegacyDoc(Stringify(Built(CatA)[1])),
   DocJson(Built(CatA)[1], Built(CatA)[2])}

\* A flat table of an earlier version of the program, its keys in the
\* order of the text, one of them the SKU "skuMap".
LegacyTable ==
  LegacyDoc(<< <<"B2", Num(77)>>, <<"7", Num(5)>>, <<"skuMap", Num(9)>>,
               <<"A1", Num(55)>> >>)

FilesOrders == Files \cup {LegacyTable}

\* What it can hold besides, written by an earlier run of the process.
FilesSubmit ==
  (Files \ {Corrupt}) \cup {DocJson(Built(CatC)[1], Built(<<P2, P1>>)[2])}

ImageUrls == {Str("https://i.ibb.co/qr.png"), Null}

\* The sync_variants a product of a paged catalog can have: an id with SKU
\* and external id; the same SKU and external id (as a number) under
\* another id; only the fallback id; a zero id beside a fallback id; a
\* negative id; a non-numeric id, an empty SKU, and a variant with no id.
VariantLists ==
  { << Variant(Num(55), Undef, Str("A1"), Str("99")) >>,
    << Variant(Num(56), Str("88"), Str("A1"), Num(99)) >>,
    << Variant(Undef, Str("88"), Str("C3"), Undef) >>,
    << Variant(Num(0), Num(88), Str("K1"), Num(0)) >>,
    << Variant(Num(-5), Undef, Str("N1"), Null) >>,
    << Variant(Str("abc"), Num(88), Str(""), Num(7)),
       Variant(Null, Undef, Str("D4"), Str("")) >> }

\* Catalogs of up to MaxProducts products, numbered in listing order.
PagedCatalogs ==
  UNION { { [i \in 1..k |-> Product(Num(i), f[i])] : f \in [1..k -> VariantLists] }
          : k \in 0..MaxProducts }

\* skuMap.json before a rebuild over a paged catalog.
FilesRebuild == {Missing, DocJson(Built(CatA)[1], Built(CatA)[2])}

\* Orders delivered to the webhook route.
O1 == Order(Num(1), Str("a@x"), << LineItem(Str("A1"), Num(99), Num(2), Str("hello")) >>)
O1b == Order(Num(1), Str("a@x"), << LineItem(Str("A1"), Num(99), Undef, Str("hello")) >>)
O2 == Order(Num(2), Undef, << LineItem(Str("ZZ"), Undef, Num(1), Str("hi")),
                              LineItem(Str("B2"), Num(99), Num(3), Undef) >>)
O3 == Order(Num(3), Undef, << LineItem(Str("A1"), Undef, Num(1), Undef) >>)
Orders == {O1, O1b, O2, O3}

\* Line items and orders given to a direct call.
Skus == {Undef, Str(""), Str("A1"), Str("ZZ"), Str("constructor")}
VariantIds == {Undef, Num(0), Num(99), Str("99")}
Quantities == {Undef, Num(2)}
LineItems == {LineItem(s, v, q, Undef) : s \in Skus, v \in VariantIds, q \in Quantities}
SeqsUpTo(S, n) == UNION {[1..k -> S] : k \in 0..n}
AllOrders == {Order(Num(1), Undef, lis) : lis \in SeqsUpTo(LineItems, MaxItems)}

----------------------------------------------------------------------------
(* The state after the module has been loaded: the environment is read,    *)
(* loadSkuMapFromFile has run, no request has been served.                 *)

InitWith(files, keys, catalogs) ==
  /\ PRINTFUL_TOKEN \in BOOLEAN
  /\ IMGBB_API_KEY \in keys
  /\ file \in files
  /\ skuMap = loadSkuMapFromFile(file)[1]
  /\ externalMap = loadSkuMapFromFile(file)[2]
  /\ processedOrders = {}
  /\ delivery = [d \in Deliveries |-> IdleDelivery]
  /\ build = [b \in Builds |-> IdleBuild]
  /\ catalog \in catalogs
  /\ printful = << >>
  /\ call = NoCall

Init == InitWith(Files, BOOLEAN, Catalogs)

InitOrders == InitWith(FilesOrders, BOOLEAN, Catalogs)

InitSync == InitWith(Files, {TRUE}, Catalogs)

InitSubmit == InitWith(FilesSubmit, {TRUE}, {CatC})

DeliveryStep(D) ==
  \/ \E d \in D, o \in Orders : Receive(d, o)
  \/ \E d \in D, ok \in BOOLEAN : QrDone(d, ok)
  \/ \E d \in D, ok \in BOOLEAN, imageUrl \in ImageUrls : UploadDone(d, ok, imageUrl)
  \/ \E d \in D, accept \in BOOLEAN : ProviderServe(d, accept)
  \/ \E d \in D : PutDone(d)

BuildStep(B) ==
  \/ \E b \in B : BuildStart(b)
  \/ \E b \in B, ok \in BOOLEAN, writeOk \in BOOLEAN : ListDone(b, ok, writeOk)
  \/ \E b \in B, ok \in BOOLEAN, writeOk \in BOOLEAN : DetailDone(b, ok, writeOk)
  \/ \E c \in Catalogs : CatalogChange(c)

\* The process: a webhook delivery interleaved with the startup rebuild
\* and the first MaxOverlap - 1 admin rebuilds.
Next == DeliveryStep({1}) \/ BuildStep(1..MaxOverlap)

Spec == Init /\ [][Next]_vars

\* The webhook route: MaxDeliveries deliveries, in any interleaving, while
\* no rebuild completes.
OrdersNext == DeliveryStep(Deliveries)

SpecOrders == InitOrders /\ [][OrdersNext]_vars

\* The rebuilds: MaxBuilds invocations, in any interleaving.
SyncNext == BuildStep(Builds)

SpecSync == InitSync /\ [][SyncNext]_vars

\* The rebuilds while every write of skuMap.json succeeds.
SavedNext ==
  \/ \E b \in Builds : BuildStart(b)
  \/ \E b \in Builds, ok \in BOOLEAN : ListDone(b, ok, TRUE)
  \/ \E b \in Builds, ok \in BOOLEAN : DetailDone(b, ok, TRUE)
  \/ \E c \in Catalogs : CatalogChange(c)

SpecSaved == InitSync /\ [][SavedNext]_vars

\* createOrUpdatePrintfulOrder applied to every order of AllOrders under
\* every loaded snapshot.
SubmitNext ==
  /\ call = NoCall
  /\ \E o \in AllOrders : DirectCall(o, Str("https://i.ibb.co/qr.png"))

SpecSubmit == InitSubmit /\ [][SubmitNext]_vars

\* One rebuild, the startup one, over every catalog of PagedCatalogs; the
\* catalog does not change while it runs.
InitRebuild == InitWith(FilesRebuild, {TRUE}, PagedCatalogs)

RebuildNext ==
  \/ BuildStart(1)
  \/ \E ok \in BOOLEAN, writeOk \in BOOLEAN : ListDone(1, ok, writeOk)
  \/ \E ok \in BOOLEAN, writeOk \in BOOLEAN : DetailDone(1, ok, writeOk)

SpecRebuild == InitRebuild /\ [][RebuildNext]_vars

\* The same with every request of the rebuild answered: node-fetch settles
\* each awaited fetch, and the event loop then resumes buildSkuMaps.
SpecRebuildFair == SpecRebuild /\ WF_vars(RebuildNext)

----------------------------------------------------------------------------
(* The resolution policy as the specification words it: the SKU when it is *)
(* non-empty and a key of bySku, else the external variant id when it is   *)
(* present and its string form is a key of byExternalId, else unresolved.  *)

Unresolved == Undef

SkuPresent(li, bySku) == IsStr(li.sku) /\ li.sku.s # "" /\ HasOwn(bySku, li.sku.s)

ExternalPresent(li, byExternalId) ==
  li.variant_id # Undef /\ li.variant_id # Null
    /\ HasOwn(byExternalId, String(li.variant_id))

Resolve(li, bySku, byExternalId) ==
  IF SkuPresent(li, bySku) THEN Get(bySku, li.sku.s)
  ELSE IF ExternalPresent(li, byExternalId)
    THEN Get(byExternalId, String(li.variant_id))
  ELSE Unresolved

RECURSIVE ResolvedItems(_, _, _, _)
ResolvedItems(lis, imageUrl, bySku, byExternalId) ==
  IF lis = << >> THEN << >>
  ELSE LET li == Head(lis)
           id == Resolve(li, bySku, byExternalId)
           rest == ResolvedItems(Tail(lis), imageUrl, bySku, byExternalId)
       IN  IF id = Unresolved THEN rest
           ELSE << [quantity |-> IF li.quantity = Undef THEN Num(1) ELSE li.quantity,
                    sync_variant_id |-> id,
                    files |-> << [url |-> imageUrl, type |-> "back"] >>] >> \o rest

Called == call.kind = "called"

----------------------------------------------------------------------------
(* C1: every accepted provider write for an order replaces or creates the  *)
(* one provider order keyed by String(order.id): the provider never holds  *)
(* two orders with one external id, an accepted write leaves that id's     *)
(* order with exactly the written payload and every other order as it was, *)
(* and nothing else changes the provider's orders.                         *)

OnePerExternalId ==
  \A i, j \in DOMAIN printful :
    printful[i].external_id = printful[j].external_id => i = j

Accepted(d) == delivery[d].pc = "put" /\ delivery'[d].pc = "resp" /\ delivery'[d].respOk

UpsertStep ==
  /\ \A d \in Deliveries : Accepted(d) =>
       LET key == String(delivery[d].order.id)
       IN  /\ delivery[d].request.body.external_id = key
           /\ Cardinality({i \in DOMAIN printful' : printful'[i].external_id = key}) = 1
           /\ \A i \in DOMAIN printful' :
                IF printful'[i].external_id = key
                  THEN printful'[i].payload = delivery[d].request.body
                  ELSE i \in DOMAIN printful /\ printful'[i] = printful[i]
           /\ \A i \in DOMAIN printful :
                printful[i].external_id # key => printful'[i] = printful[i]
  /\ printful' # printful => \E d \in Deliveries : Accepted(d)

C1_IdempotentUpsert == []OnePerExternalId /\ [][UpsertStep]_vars

\* Two deliveries of order id 1 with different payloads were both accepted
\* and the provider holds one order for "1".
C1_Witness ==
  /\ \E d, e \in Deliveries :
       /\ d # e
       /\ delivery[d].body = "Processed and sent to Printful"
       /\ delivery[e].body = "Processed and sent to Printful"
       /\ delivery[d].order.id = delivery[e].order.id
       /\ delivery[d].request # delivery[e].request
  /\ Len(printful) = 1

----------------------------------------------------------------------------
(* C2: a submission in which no line item resolves (the order may have no  *)
(* line items) returns Skipped(no_mapped_items) and issues no request,     *)
(* whether or not PRINTFUL_TOKEN is set.                                   *)

NoneResolves(order) ==
  \A i \in DOMAIN order.line_items :
    Resolve(order.line_items[i], skuMap, externalMap) = Unresolved

C2_SkippedWhenNoneResolves ==
  (Called /\ NoneResolves(call.order)) =>
    call.result = [kind |-> "skipped", reason |-> "no_mapped_items"]

----------------------------------------------------------------------------
(* C3: when the SKU of every line item is a key of bySku, the submitted    *)
(* items carry, in order, bySku[sku], whatever the external variant ids    *)
(* are and whatever byExternalId maps them to.                             *)

C3_SkuFirst ==
  (/\ Called
   /\ PRINTFUL_TOKEN
   /\ call.order.line_items # << >>
   /\ \A i \in DOMAIN call.order.line_items :
        SkuPresent(call.order.line_items[i], skuMap)) =>
    /\ call.result.kind = "request"
    /\ Len(call.result.request.body.items) = Len(call.order.line_items)
    /\ \A i \in DOMAIN call.order.line_items :
         call.result.request.body.items[i].sync_variant_id
           = Get(skuMap, call.order.line_items[i].sku.s)

\* A submitted line item whose SKU and whose external variant id are both
\* keys, of different fulfillment ids.
C3_Witness ==
  /\ Called
  /\ call.result.kind = "request"
  /\ Len(call.order.line_items) = 1
  /\ LET li == call.order.line_items[1]
     IN  /\ SkuPresent(li, skuMap)
         /\ ExternalPresent(li, externalMap)
         /\ Get(skuMap, li.sku.s) # Get(externalMap, String(li.variant_id))
         /\ call.result.request.body.items[1].sync_variant_id = Get(skuMap, li.sku.s)

----------------------------------------------------------------------------
(* C4: when every line item has an empty or absent SKU and an external     *)
(* variant id, of any value, whose string form is a key of byExternalId,   *)
(* the submitted items carry, in order, byExternalId[String(id)].          *)

NoSku(li) == li.sku = Undef \/ li.sku = Str("")

C4_ExternalFallback ==
  (/\ Called
   /\ PRINTFUL_TOKEN
   /\ call.order.line_items # << >>
   /\ \A i \in DOMAIN call.order.line_items :
        /\ NoSku(call.order.line_items[i])
        /\ ExternalPresent(call.order.line_items[i], externalMap)) =>
    /\ call.result.kind = "request"
    /\ Len(call.result.request.body.items) = Len(call.order.line_items)
    /\ \A i \in DOMAIN call.order.line_items :
         call.result.request.body.items[i].sync_variant_id
           = Get(externalMap, String(call.order.line_items[i].variant_id))

----------------------------------------------------------------------------
(* C5: the items of a submitted payload are exactly the line items that    *)
(* resolve, in line-item order, each with its resolved id, its quantity    *)
(* (1 when absent) and one artifact reference; unresolved items are left   *)
(* out.                                                                    *)

C5_ItemsAreResolvedItems ==
  (Called /\ call.result.kind = "request") =>
    call.result.request.body.items
      = ResolvedItems(call.order.line_items, call.imageUrl, skuMap, externalMap)

----------------------------------------------------------------------------
(* C6: once a delivery of an order id has ended in the provider's success, *)
(* the id is in processedOrders and stays there, and every delivery that   *)
(* arrives with an id in processedOrders is answered "Already processed"   *)
(* in its first step: no QR code, no upload, no provider write.            *)

Arrives(d) == delivery[d].pc = "idle" /\ delivery'[d].pc # "idle"

Succeeds(d) ==
  /\ delivery[d].pc = "resp" /\ delivery[d].respOk
  /\ delivery'[d].pc = "done"

GuardStep ==
  /\ \A d \in Deliveries : Succeeds(d) =>
       /\ delivery'[d].body = "Processed and sent to Printful"
       /\ delivery[d].order.id \in processedOrders'
  /\ processedOrders \subseteq processedOrders'
  /\ \A d \in Deliveries :
       (Arrives(d) /\ delivery'[d].order.id \in processedOrders) =>
         /\ delivery'[d] = Respond([IdleDelivery EXCEPT !.order = delivery'[d].order],
                                   200, "Already processed")
         /\ printful' = printful
  /\ \A d \in Deliveries : delivery[d].pc = "done" => delivery'[d] = delivery[d]

C6_GuardShortCircuits == [][GuardStep]_vars

\* A delivery was answered "Already processed" for an order id that an
\* earlier delivery had sent with success.
C6_Witness ==
  \E d, e \in Deliveries :
    /\ delivery[d].body = "Processed and sent to Printful"
    /\ delivery[e].body = "Already processed"
    /\ delivery[e].order.id = delivery[d].order.id

----------------------------------------------------------------------------
(* C7: a delivery whose upsert the provider rejects answers 500 and leaves *)
(* processedOrders as it was; a delivery of an order with a QR text whose  *)
(* id is not in processedOrders passes the guard and starts the pipeline;  *)
(* and a delivery whose upsert the provider accepts answers 200 with the   *)
(* order held by the provider and its id in processedOrders.               *)

Rejected(d) ==
  /\ delivery[d].pc = "resp" /\ ~delivery[d].respOk
  /\ delivery'[d].pc = "done"

RetryStep ==
  /\ \A d \in Deliveries : Rejected(d) =>
       /\ delivery'[d].status = 500
       /\ delivery'[d].body = "Printful order failed"
       /\ processedOrders' = processedOrders
  /\ \A d \in Deliveries :
       (/\ Arrives(d)
        /\ delivery'[d].order.id \notin processedOrders
        /\ Truthy(FindQrText(delivery'[d].order.line_items))) =>
         delivery'[d].pc = "qr"
  /\ \A d \in Deliveries : Succeeds(d) =>
       /\ delivery'[d].status = 200
       /\ delivery[d].order.id \in processedOrders'
       /\ \E i \in DOMAIN printful :
            printful[i].external_id = String(delivery[d].order.id)

C7_RejectedIsRetried == [][RetryStep]_vars

\* The provider rejected one delivery of an order and accepted another
\* delivery of the same order, which is now marked processed.
C7_Witness ==
  \E d, e \in Deliveries :
    /\ d < e
    /\ delivery[d].pc = "done" /\ delivery[d].request # Undef
    /\ delivery[d].body = "Printful order failed"
    /\ delivery[e].body = "Processed and sent to Printful"
    /\ delivery[e].order = delivery[d].order
    /\ delivery[e].order.id \in processedOrders

----------------------------------------------------------------------------
(* C8: until a rebuild completes, skuMap and externalMap are the pair the  *)
(* load gave; they change only in the step in which a rebuild completes,   *)
(* both at once, to the two maps that rebuild has built; and the items of  *)
(* a request are all resolved against the pair of one state.               *)

LoadedUntilSwap ==
  (\A b \in Builds : ~Succeeded(build[b])) =>
    <<skuMap, externalMap>> = loadSkuMapFromFile(file)

Completes(b) == build[b].pc # "done" /\ Succeeded(build'[b])

SnapshotStep ==
  /\ (skuMap' # skuMap \/ externalMap' # externalMap) =>
       \E b \in Builds :
         /\ Completes(b)
         /\ skuMap' = build'[b].newSkuMap
         /\ externalMap' = build'[b].newExternalMap
  /\ \A d \in Deliveries :
       (delivery[d].pc = "upload" /\ delivery'[d].pc = "put") =>
         \E imageUrl \in ImageUrls :
           delivery'[d].request.body.items
             = Items(delivery[d].order.line_items, imageUrl, skuMap, externalMap)

C8_AtomicSnapshot == []LoadedUntilSwap /\ [][SnapshotStep]_vars

\* An order has been resolved and sent while a rebuild is in the middle of
\* its pass, holding maps that are neither empty nor the active ones.
C8_Witness ==
  /\ delivery[1].pc = "put"
  /\ \E b \in Builds :
       /\ build[b].pc \in {"list", "detail"}
       /\ build[b].newSkuMap # EmptyObj
       /\ build[b].newSkuMap # skuMap

----------------------------------------------------------------------------
(* C9: a rebuild that starts without PRINTFUL_TOKEN ends at once with the  *)
(* error given to its caller; and no step of a rebuild other than its      *)
(* successful completion, the step in which it fails included, changes     *)
(* skuMap, externalMap or the file.                                        *)

FailStep ==
  \A b \in Builds :
    /\ (build[b].pc = "idle" /\ build'[b].pc # "idle" /\ ~PRINTFUL_TOKEN) =>
         /\ Failed(build'[b])
         /\ build'[b].outcome = Thrown(b)
    /\ (build'[b] # build[b] /\ ~Succeeded(build'[b])) =>
         UNCHANGED <<skuMap, externalMap, file>>

C9_FailedRebuildKeepsSnapshot == [][FailStep]_vars

\* A rebuild has failed on a later page, after it had built entries, and
\* the active maps are still the loaded ones.
C9_Witness ==
  \E b \in Builds :
    /\ Failed(build[b])
    /\ build[b].offset > 0
    /\ build[b].newSkuMap # EmptyObj
    /\ build[b].newSkuMap # skuMap
    /\ <<skuMap, externalMap>> = loadSkuMapFromFile(file)

----------------------------------------------------------------------------
(* C10: when a rebuild completes with the same two maps as the rebuild     *)
(* that completed before it, whose maps are the active ones, it does not   *)
(* reach the file write and leaves skuMap, externalMap and the file as     *)
(* they were.                                                              *)

NoOpStep ==
  \A a, b \in Builds :
    (/\ a # b
     /\ Succeeded(build[a])
     /\ Completes(b)
     /\ build'[b].newSkuMap = build[a].newSkuMap
     /\ build'[b].newExternalMap = build[a].newExternalMap
     /\ skuMap = build[a].newSkuMap
     /\ externalMap = build[a].newExternalMap) =>
      /\ UNCHANGED <<skuMap, externalMap, file>>
      /\ ~build'[b].wrote

C10_SecondRebuildWritesNothing == [][NoOpStep]_vars

\* Two rebuilds have completed with the same maps: the first reached the
\* file write, the second did not.
C10_Witness ==
  \E a, b \in Builds :
    /\ a # b
    /\ Succeeded(build[a]) /\ Succeeded(build[b])
    /\ build[a].newSkuMap = build[b].newSkuMap
    /\ build[a].newExternalMap = build[b].newExternalMap
    /\ build[a].newSkuMap # EmptyObj
    /\ build[a].wrote /\ ~build[b].wrote
    /\ skuMap = build[b].newSkuMap

----------------------------------------------------------------------------
(* The variant identity as the specification words it: a fulfillment id is *)
(* a positive integer, read from the primary field id and, when that field *)
(* does not yield one, from the fallback field sync_variant_id.            *)

ValidId(x) == IsNum(x) /\ x.n > 0

ClaimedId(v) ==
  IF ValidId(ToNumber(v.id)) THEN ToNumber(v.id)
  ELSE IF ValidId(ToNumber(v.sync_variant_id)) THEN ToNumber(v.sync_variant_id)
  ELSE Undef

SkuGiven(v) == IsStr(v.sku) /\ v.sku.s # ""
ExternalGiven(v) == v.external_id # Undef /\ v.external_id # Null

VariantsOf(cat) ==
  UNION { { cat[i].sync_variants[j] : j \in DOMAIN cat[i].sync_variants }
          : i \in DOMAIN cat }

\* TRUE iff map o holds key k with value x as an own property.
Holds(o, k, x) == HasOwn(o, k) /\ Get(o, k) = x

----------------------------------------------------------------------------
(* C11: a rebuild that completes without having skipped a product has      *)
(* built exactly these entries: in newSkuMap the id of every variant with  *)
(* a valid id and an SKU, under the SKU; in newExternalMap the id of every *)
(* variant with a valid id and an external id, under the string form of    *)
(* the external id; and no entry that no such variant gives.               *)

C11_ExactEntries ==
  \A b \in Builds :
    (Succeeded(build[b]) /\ build[b].skipped = << >>) =>
      LET vs == VariantsOf(catalog)
          bySku == build[b].newSkuMap
          byExternalId == build[b].newExternalMap
      IN  /\ \A v \in vs :
               /\ (ClaimedId(v) # Undef /\ SkuGiven(v)) =>
                    Holds(bySku, v.sku.s, ClaimedId(v))
               /\ (ClaimedId(v) # Undef /\ ExternalGiven(v)) =>
                    Holds(byExternalId, String(v.external_id), ClaimedId(v))
          /\ \A k \in Keys(bySku) :
               \E v \in vs : /\ ClaimedId(v) # Undef /\ SkuGiven(v)
                             /\ v.sku.s = k /\ Get(bySku, k) = ClaimedId(v)
          /\ \A k \in Keys(byExternalId) :
               \E v \in vs : /\ ClaimedId(v) # Undef /\ ExternalGiven(v)
                             /\ String(v.external_id) = k
                             /\ Get(byExternalId, k) = ClaimedId(v)

----------------------------------------------------------------------------
(* C12: while skuMap.json holds a flat table and no rebuild has completed, *)
(* skuMap holds exactly the entries of that table and externalMap is       *)
(* empty.                                                                  *)

C12_LegacyLoads ==
  (file.kind = "legacy" /\ \A b \in Builds : ~Succeeded(build[b])) =>
    /\ Keys(skuMap) = {file.flat[i][1] : i \in DOMAIN file.flat}
    /\ \A i \in DOMAIN file.flat :
         Holds(skuMap, file.flat[i][1], file.flat[i][2])
    /\ externalMap = EmptyObj

\* An order has been resolved against the table loaded from a flat
\* document that has the SKU "skuMap".
C12_Witness ==
  /\ file.kind = "legacy"
  /\ HasOwn(skuMap, "skuMap")
  /\ \E d \in Deliveries :
       /\ delivery[d].pc = "put"
       /\ delivery[d].request.body.items # << >>

----------------------------------------------------------------------------
(* C13: every order id in processedOrders is the id of a delivery that has *)
(* been answered after the provider accepted its upsert, or after the      *)
(* submission was skipped; and a delivery that ends with an error answer   *)
(* (the QR generation, the upload or the submission failed) leaves         *)
(* processedOrders as it was.                                              *)

MarkedWereSent ==
  \A id \in processedOrders :
    \E d \in Deliveries :
      /\ delivery[d].pc = "done"
      /\ delivery[d].order.id = id
      /\ delivery[d].status = 200
      /\ \/ delivery[d].body = "Processed and sent to Printful" /\ delivery[d].respOk
         \/ delivery[d].body = "No mapped items; skipped Printful creation"

Ends(d) == delivery[d].pc # "done" /\ delivery'[d].pc = "done"

ErrorStep ==
  \A d \in Deliveries :
    (Ends(d) /\ delivery'[d].status # 200) =>
      /\ delivery'[d].status = 500
      /\ delivery'[d].body \in {"Server error", "ImgBB upload failed",
                                "Printful order failed"}
      /\ processedOrders' = processedOrders

C13_MarkedOnlyAfterSuccess == []MarkedWereSent /\ [][ErrorStep]_vars

\* One delivery was sent with success and is marked; another ended in an
\* upload failure and its order id is not marked.
C13_Witness ==
  \E d, e \in Deliveries :
    /\ delivery[d].body = "Processed and sent to Printful"
    /\ delivery[d].order.id \in processedOrders
    /\ delivery[e].body = "ImgBB upload failed"
    /\ delivery[e].order.id \notin processedOrders

----------------------------------------------------------------------------
(* C14: an order id is added to processedOrders only in the step in which  *)
(* a delivery takes the provider's 2xx response, several awaits after the  *)
(* step in which that delivery passed the guard; and when the provider has *)
(* accepted the upserts of two deliveries of one order id, it holds        *)
(* exactly one order for that id.                                          *)

SentBoth(d, e) ==
  /\ d # e
  /\ delivery[d].pc \in {"resp", "done"} /\ delivery[d].respOk
  /\ delivery[e].pc \in {"resp", "done"} /\ delivery[e].respOk
  /\ delivery[d].order.id = delivery[e].order.id

BothSentOneOrder ==
  \A d, e \in Deliveries :
    SentBoth(d, e) =>
      Cardinality({i \in DOMAIN printful :
                    printful[i].external_id = String(delivery[d].order.id)}) = 1

MarkStep ==
  /\ processedOrders' # processedOrders =>
       \E d \in Deliveries :
         /\ Succeeds(d)
         /\ processedOrders' = processedOrders \cup {delivery[d].order.id}
  /\ \A d \in Deliveries :
       (delivery'[d].pc \in {"qr", "upload", "put", "resp"} /\ delivery'[d] # delivery[d]) =>
         processedOrders' = processedOrders

C14_CheckAndMarkApart == []BothSentOneOrder /\ [][MarkStep]_vars

\* Two deliveries of one order id have both passed the guard, uploaded
\* and had their upsert accepted, neither is marked yet, and the provider
\* holds one order for the id.
C14_Witness ==
  \E d, e \in Deliveries :
    /\ SentBoth(d, e)
    /\ delivery[d].pc = "resp" /\ delivery[e].pc = "resp"
    /\ delivery[d].order.id \notin processedOrders
    /\ Len(printful) = 1

----------------------------------------------------------------------------
(* C15: a rebuild may start while another is suspended, and the rebuild    *)
(* that completes last decides: in the step in which a rebuild completes,  *)
(* its two maps become skuMap and externalMap and, unless they are the     *)
(* maps already in use or the write fails, the file holds their document,  *)
(* whichever rebuild started first and whatever the rebuilds that          *)
(* completed before it had built.                                          *)

LastSwapStep ==
  \A b \in Builds :
    Completes(b) =>
      /\ skuMap' = build'[b].newSkuMap
      /\ externalMap' = build'[b].newExternalMap
      /\ \/ file' = DocJson(build'[b].newSkuMap, build'[b].newExternalMap)
         \/ file' = file /\ build'[b].wrote
         \/ file' = file /\ skuMap' = skuMap /\ externalMap' = externalMap

C15_LastRebuildWins == [][LastSwapStep]_vars

\* Rebuild a started before rebuild b and read CatA, b read CatC, the
\* catalog the provider now has; both completed and wrote, and the maps in
\* use and the file are those of a.
C15_Witness ==
  \E a, b \in Builds :
    /\ a < b
    /\ Succeeded(build[a]) /\ Succeeded(build[b])
    /\ build[a].skipped = << >> /\ build[b].skipped = << >>
    /\ <<build[a].newSkuMap, build[a].newExternalMap>> = Built(CatA)
    /\ <<build[b].newSkuMap, build[b].newExternalMap>> = Built(CatC)
    /\ catalog = CatC
    /\ build[a].wrote /\ build[b].wrote
    /\ <<skuMap, externalMap>> = Built(CatA)
    /\ file = DocJson(build[a].newSkuMap, build[a].newExternalMap)

----------------------------------------------------------------------------
(* C16: a rebuild over a catalog that does not change asks for the pages   *)
(* at offsets 0, limit, 2 * limit, ..., each next one only after a page of *)
(* limit products, and completes after the first page of fewer; the        *)
(* details it asks for are those of the listed products, one after the     *)
(* other in listing order, each once; and when its requests are answered   *)
(* it ends.                                                                *)

\* The number of details rebuild b has asked for.
Asked(rec) ==
  IF rec.pc = "detail" THEN rec.offset + rec.idx
  ELSE IF rec.pc = "list" THEN rec.offset
  ELSE rec.offset + Len(rec.products)

PagingInv ==
  \A b \in Builds :
    LET rec == build[b]
    IN  /\ rec.offset % limit = 0
        /\ rec.offset <= Len(catalog)
        /\ rec.pc = "detail" =>
             /\ rec.products = Page(catalog, rec.offset)
             /\ rec.idx \in 1..Len(rec.products)
             /\ rec.products[rec.idx] = catalog[Asked(rec)].id
        /\ Succeeded(rec) =>
             /\ rec.products = Page(catalog, rec.offset)
             /\ Len(rec.products) < limit
             /\ Asked(rec) = Len(catalog)

PagingStep ==
  \A b \in Builds :
    LET rec == build[b]
        next == build'[b]
    IN  /\ (rec.pc = "idle" /\ next.pc = "list") => next.offset = 0
        /\ (rec.pc # "idle" /\ next.pc = "list" /\ next # rec) =>
             /\ rec.pc = "detail" /\ rec.idx = limit /\ Len(rec.products) = limit
             /\ next.offset = rec.offset + limit
        /\ (next.pc = "detail" /\ next # rec) => Asked(next) = Asked(rec) + 1
        /\ (rec.pc = "detail" /\ Succeeded(next)) => rec.idx = Len(rec.products)
        /\ (rec.pc = "list" /\ Succeeded(next)) => next.products = << >>

C16_PagingTerminates ==
  /\ []PagingInv
  /\ [][PagingStep]_vars
  /\ <>(build[1].pc = "done")

\* The rebuild has completed after a full page at offset 0 and a short,
\* non-empty page at offset limit.
C16_Witness ==
  /\ Succeeded(build[1])
  /\ build[1].offset = limit
  /\ build[1].products # << >>
  /\ Len(catalog) > limit

----------------------------------------------------------------------------
(* C17: every value a rebuild has stored in newSkuMap or newExternalMap is *)
(* a positive integer.                                                     *)

Values(o) == {o[i][2] : i \in DOMAIN o}

C17_StoredIdsPositive ==
  \A b \in Builds :
    \A x \in Values(build[b].newSkuMap) \cup Values(build[b].newExternalMap) :
      ValidId(x)

----------------------------------------------------------------------------
(* C18: a rebuild that completes without having skipped a product has     *)
(* kept every variant one of whose two id fields yields a positive         *)
(* integer: the variant's SKU and external id, when no other variant has   *)
(* the same, map to the id of the primary field if that is a positive      *)
(* integer and else to the id of the fallback field.                       *)

OnlySku(v, vs) == \A w \in vs : (SkuGiven(w) /\ w.sku = v.sku) => w = v

OnlyExternal(v, vs) ==
  \A w \in vs :
    (ExternalGiven(w) /\ String(w.external_id) = String(v.external_id)) => w = v

C18_FallbackWhenPrimaryInvalid ==
  \A b \in Builds :
    (Succeeded(build[b]) /\ build[b].skipped = << >>) =>
      LET vs == VariantsOf(catalog)
      IN  \A v \in vs :
            ClaimedId(v) # Undef =>
              /\ (SkuGiven(v) /\ OnlySku(v, vs)) =>
                   Holds(build[b].newSkuMap, v.sku.s, ClaimedId(v))
              /\ (ExternalGiven(v) /\ OnlyExternal(v, vs)) =>
                   Holds(build[b].newExternalMap, String(v.external_id), ClaimedId(v))

----------------------------------------------------------------------------
(* C19: while every write of skuMap.json succeeds, loadSkuMapFromFile      *)
(* applied to the file gives skuMap and externalMap as they are, in every  *)
(* state of the startup load and the rebuilds, however these interleave;   *)
(* for a missing file both maps are empty.                                 *)

C19_FileIsSnapshot ==
  /\ loadSkuMapFromFile(file) = <<skuMap, externalMap>>
  /\ file = Missing => skuMap = EmptyObj /\ externalMap = EmptyObj

\* Two rebuilds have completed with different maps and both wrote; the
\* document the last one left has the external id "0" among its keys.
C19_Witness ==
  /\ file.kind = "current"
  /\ HasOwn(externalMap, "0")
  /\ \E a, b \in Builds :
       /\ Succeeded(build[a]) /\ Succeeded(build[b])
       /\ build[a].wrote /\ build[b].wrote
       /\ build[a].newSkuMap # build[b].newSkuMap

----------------------------------------------------------------------------
(* C20: a rebuild does not fail at a product detail.  When the detail      *)
(* fetch of a product fails, the rebuild logs the product as skipped,      *)
(* leaves its two maps as they are and goes on with the next product, the  *)
(* next page or its completion; a rebuild that completes has built the     *)
(* maps of the catalog without the skipped products, these are the maps in *)
(* use, the file holds them unless they were the loaded ones or the write  *)
(* failed, and a key that only skipped products give is in neither map.    *)

Remaining(cat, skipped) ==
  SelectSeq(cat, LAMBDA p : \A i \in DOMAIN skipped : skipped[i] # p.id)

SkipStep ==
  \A b \in Builds :
    LET rec == build[b]
        next == build'[b]
    IN  /\ rec.pc = "detail" => ~Failed(next)
        /\ (rec.pc = "detail" /\ next.skipped # rec.skipped) =>
             /\ next.skipped = Append(rec.skipped, rec.products[rec.idx])
             /\ next.newSkuMap = rec.newSkuMap
             /\ next.newExternalMap = rec.newExternalMap
             /\ IF rec.idx < Len(rec.products)
                  THEN next.pc = "detail" /\ next.idx = rec.idx + 1
                  ELSE IF Len(rec.products) = limit
                    THEN next.pc = "list" /\ next.offset = rec.offset + limit
                    ELSE Succeeded(next)

SkippedOmitted ==
  \A b \in Builds :
    Succeeded(build[b]) =>
      LET built == Built(Remaining(catalog, build[b].skipped))
      IN  /\ <<build[b].newSkuMap, build[b].newExternalMap>> = built
          /\ <<skuMap, externalMap>> = built
          /\ \/ file = DocJson(built[1], built[2])
             \/ build[b].wrote
             \/ loadSkuMapFromFile(file) = built
          /\ \A k \in Keys(Built(catalog)[1]) \ Keys(built[1]) : ~HasOwn(skuMap, k)
          /\ \A k \in Keys(Built(catalog)[2]) \ Keys(built[2]) : ~HasOwn(externalMap, k)

====
